---- MODULE Spec2Model ----
(***************************************************************************)
(* Model of the RAGPipeline ingestion and lifecycle code:                  *)
(*   src/vector_store.py  VectorStore (ChromaDB collection wrapper)        *)
(*   src/web_scraper.py   WebScraper.fetch_url / scrape                    *)
(*   src/main.py          the /process and /status handlers                *)
(*                                                                         *)
(* The persisted ChromaDB collection is the state.  Every public method    *)
(* of VectorStore and every HTTP handler that touches the collection is    *)
(* one action.  Two history variables, prev and last, record the           *)
(* collection before the most recent operation and what that operation     *)
(* was, so that pre/post conditions can be stated as state predicates.     *)
(***************************************************************************)
EXTENDS Integers, Sequences, FiniteSets, TLC

VARIABLES
    collection,   \* ChromaDB collection: id -> [document, metadata, embedding]
    metric,       \* the collection's "hnsw:space" tag
    prev,         \* collection as it was before the last operation
    last          \* the last operation, its arguments and its outcome

vars == <<collection, metric, prev, last>>

----------------------------------------------------------------------------
(* Bounds of the model *)

\* AddDocument and Process are taken only while the collection holds at most
\* this many fragments before the call.
MaxFragments == 1

----------------------------------------------------------------------------
(* Program constants *)

\* text[:100] in _generate_id
IdPrefixLen == 100

----------------------------------------------------------------------------
(* Input universes *)

P10 == "0123456789"
P100 == P10 \o P10 \o P10 \o P10 \o P10 \o P10 \o P10 \o P10 \o P10 \o P10

\* Two chunk texts longer than IdPrefixLen that agree on their first 100
\* characters and differ afterwards.
LongA == P100 \o "A"
LongB == P100 \o "B"

\* A document's content is given as the sequence of blocks the text splitter
\* cuts it into at its separators (each block within chunk_size and too large
\* to be merged with its neighbour); a block may be blank.
Contents ==
    { <<>>, <<" ">>, <<LongA>>, <<LongA, "y">>, <<LongB>> }

\* Metadata dictionaries handed to add_document: web documents ('url'),
\* uploaded files ('source'), both keys, or neither.
Metadatas ==
    { [url |-> "a", title |-> "t1"],
      [url |-> "a", title |-> "t2"],
      [url |-> "b", title |-> "t1"],
      [source |-> "a", title |-> "t1"],
      [source |-> "b", title |-> "t1"],
      [url |-> "a", source |-> "b", title |-> "t1"],
      [title |-> "t1"] }

\* Arguments of delete_by_url
DeleteArgs == { "a", "b", "c" }

NoMeta == <<>>

NoResponse == [kind |-> "none"]

----------------------------------------------------------------------------
(* VectorStore helpers *)

\* text[:100]
Prefix(text) ==
    IF Len(text) <= IdPrefixLen THEN text ELSE SubSeq(text, 1, IdPrefixLen)

\* hashlib.md5(...).hexdigest(): the digest is taken to be collision free and
\* is represented by the tagged string it digests.
md5(content) == <<"md5", content>>

\* _generate_id(text, url): md5 of f"{url}:{text[:100]}"
generate_id(text, url) == md5(url \o ":" \o Prefix(text))

\* str.strip() == "" for a block
IsBlank(block) == \A i \in 1..Len(block) : SubSeq(block, i, i) = " "

\* text_splitter.split_text(content): the blocks, stripped; blank ones dropped
split_text(content) == SelectSeq(content, LAMBDA b : ~IsBlank(b))

\* metadata.get('url', 'unknown')
MetaUrl(metadata) ==
    IF "url" \in DOMAIN metadata THEN metadata["url"] ELSE "unknown"

\* {**metadata, 'chunk_index': i, 'total_chunks': len(chunks)}
chunk_metadata(metadata, i, n) ==
    [k \in DOMAIN metadata \cup {"chunk_index", "total_chunks"} |->
        IF k = "chunk_index" THEN i
        ELSE IF k = "total_chunks" THEN n
        ELSE metadata[k]]

\* ids built by the loop of add_document: position i is 0-based
DocIds(chunks, metadata) ==
    [k \in 1..Len(chunks) |->
        generate_id(chunks[k], MetaUrl(metadata) \o "_" \o ToString(k - 1))]

DocMetadatas(chunks, metadata) ==
    [k \in 1..Len(chunks) |-> chunk_metadata(metadata, k - 1, Len(chunks))]

\* _get_embeddings(texts): one vector per text, in order
get_embeddings(texts) == [k \in 1..Len(texts) |-> <<"vec", texts[k]>>]

----------------------------------------------------------------------------
(* The ChromaDB collection *)

EmptyCollection == <<>>

\* collection.count()
count(coll) == Cardinality(DOMAIN coll)

HasDuplicates(ids) ==
    \E j, k \in 1..Len(ids) : j # k /\ ids[j] = ids[k]

Entry(ids, embeddings, metadatas, documents, id) ==
    LET k == CHOOSE k \in 1..Len(ids) : ids[k] = id
    IN  [document |-> documents[k],
         metadata |-> metadatas[k],
         embedding |-> embeddings[k]]

\* Variant of collection.add that stores a record whose id is taken under a
\* second key instead of skipping it (duplicate insert).
chroma_add_duplicating(coll, ids, embeddings, metadatas, documents) ==
    LET key(k) == IF ids[k] \in DOMAIN coll THEN <<"dup", ids[k]>> ELSE ids[k]
        fresh == { key(k) : k \in 1..Len(ids) } \ DOMAIN coll
    IN  [id \in DOMAIN coll \cup fresh |->
            IF id \in DOMAIN coll THEN coll[id]
            ELSE LET k == CHOOSE k \in 1..Len(ids) : key(k) = id
                 IN  [document |-> documents[k],
                      metadata |-> metadatas[k],
                      embedding |-> embeddings[k]]]

\* collection.add(ids, embeddings, metadatas, documents) of a persistent
\* ChromaDB client: a record whose id is already in the collection is skipped
\* (logged, not raised, not overwritten); the others are inserted.
chroma_add(coll, ids, embeddings, metadatas, documents) ==
    LET fresh == { ids[k] : k \in 1..Len(ids) } \ DOMAIN coll
    IN  [id \in DOMAIN coll \cup fresh |->
            IF id \in DOMAIN coll THEN coll[id]
            ELSE Entry(ids, embeddings, metadatas, documents, id)]

\* collection.get(where={key: value}): ids of the entries whose metadata has
\* the key with that value
get_where(coll, key, value) ==
    { id \in DOMAIN coll :
        /\ key \in DOMAIN coll[id].metadata
        /\ coll[id].metadata[key] = value }

\* collection.delete(ids=...)
chroma_delete(coll, ids) == [id \in DOMAIN coll \ ids |-> coll[id]]

----------------------------------------------------------------------------
(* VectorStore methods, as functions of the collection *)

\* Variant of add_document without the "if not chunks" early return: the
\* embedder is called with an empty list and the empty add is rejected.
add_document_no_empty_check(coll, content, metadata, embedOk) ==
    LET chunks == split_text(content)
        ids == DocIds(chunks, metadata)
        metadatas == DocMetadatas(chunks, metadata)
    IN  IF ~embedOk \/ Len(chunks) = 0 \/ HasDuplicates(ids)
        THEN [collection |-> coll, outcome |-> "raised", ret |-> -1,
              embedCalled |-> TRUE, wrote |-> FALSE]
        ELSE [collection |->
                  chroma_add(coll, ids, get_embeddings(chunks), metadatas, chunks),
              outcome |-> "ok", ret |-> Len(chunks),
              embedCalled |-> TRUE, wrote |-> TRUE]

\* Variant of add_document that embeds and stores chunk by chunk: when the
\* embedder raises, the first chunk has already been written.
add_document_chunkwise(coll, content, metadata, embedOk) ==
    LET chunks == split_text(content)
        ids == DocIds(chunks, metadata)
        metadatas == DocMetadatas(chunks, metadata)
    IN  IF Len(chunks) = 0
        THEN [collection |-> coll, outcome |-> "ok", ret |-> 0,
              embedCalled |-> FALSE, wrote |-> FALSE]
        ELSE IF ~embedOk
        THEN [collection |->
                  chroma_add(coll, SubSeq(ids, 1, 1),
                             get_embeddings(SubSeq(chunks, 1, 1)),
                             SubSeq(metadatas, 1, 1), SubSeq(chunks, 1, 1)),
              outcome |-> "raised", ret |-> -1,
              embedCalled |-> TRUE, wrote |-> TRUE]
        ELSE [collection |->
                  chroma_add(coll, ids, get_embeddings(chunks), metadatas, chunks),
              outcome |-> "ok", ret |-> Len(chunks),
              embedCalled |-> TRUE, wrote |-> TRUE]

\* add_document(content, metadata); embedOk says whether the embedding model
\* answers or raises.
add_document(coll, content, metadata, embedOk) ==
    LET chunks == split_text(content)
        ids == DocIds(chunks, metadata)
        metadatas == DocMetadatas(chunks, metadata)
    IN  IF Len(chunks) = 0
        THEN [collection |-> coll, outcome |-> "ok", ret |-> 0,
              embedCalled |-> FALSE, wrote |-> FALSE]
        ELSE IF ~embedOk
        THEN [collection |-> coll, outcome |-> "raised", ret |-> -1,
              embedCalled |-> TRUE, wrote |-> FALSE]
        ELSE IF HasDuplicates(ids)
        THEN [collection |-> coll, outcome |-> "raised", ret |-> -1,
              embedCalled |-> TRUE, wrote |-> FALSE]
        ELSE [collection |->
                  chroma_add(coll, ids, get_embeddings(chunks), metadatas, chunks),
              outcome |-> "ok", ret |-> Len(chunks),
              embedCalled |-> TRUE, wrote |-> TRUE]

\* get_all_sources(): 'url' if present, else 'source', else nothing
get_all_sources(coll) ==
    { coll[id].metadata["url"] :
        id \in { i \in DOMAIN coll : "url" \in DOMAIN coll[i].metadata } }
    \cup
    { coll[id].metadata["source"] :
        id \in { i \in DOMAIN coll :
                    /\ "url" \notin DOMAIN coll[i].metadata
                    /\ "source" \in DOMAIN coll[i].metadata } }

\* delete_by_url(url)
delete_by_url(coll, url) ==
    LET byUrl == get_where(coll, "url", url)
        results == IF byUrl = {} THEN get_where(coll, "source", url) ELSE byUrl
    IN  IF results # {}
        THEN [collection |-> chroma_delete(coll, results),
              ret |-> Cardinality(results)]
        ELSE [collection |-> coll, ret |-> 0]

\* get_stats()
get_stats(coll) ==
    [total_chunks |-> count(coll),
     total_sources |-> Cardinality(get_all_sources(coll)),
     sources |-> get_all_sources(coll)]

\* A collection newly created with metadata {"hnsw:space": tag}, as by
\* get_or_create_collection in __init__ when none is persisted yet and by
\* create_collection in clear.
create_collection(tag) ==
    [collection |-> EmptyCollection, metric |-> tag]

\* Variant of clear that creates the collection without deleting it first.
clear_without_delete(coll, tag) ==
    [collection |-> coll, metric |-> "cosine"]

\* clear(): delete_collection, then create_collection with the cosine tag;
\* coll and tag are the collection and its tag before the call.
clear(coll, tag) == create_collection("cosine")

----------------------------------------------------------------------------
(* WebScraper *)

\* URLs given to /process
ProcessUrls == { "http://a", "ftp://a" }

\* What the network gives for a GET: a request error, an empty body, or a
\* page, given by the text and title extracted from it.
Responses ==
    { [kind |-> "error"],
      [kind |-> "empty"],
      [kind |-> "page", content |-> <<"x">>, title |-> "t1"],
      [kind |-> "page", content |-> <<" ">>, title |-> "t1"] }

\* urlparse(url).scheme in ['http', 'https']
ValidScheme(url) ==
    \/ Len(url) >= 7 /\ SubSeq(url, 1, 7) = "http://"
    \/ Len(url) >= 8 /\ SubSeq(url, 1, 8) = "https://"

\* fetch_url(url): None on an invalid scheme or a request error
fetch_url(url, response) ==
    IF ~ValidScheme(url) THEN [kind |-> "None"]
    ELSE IF response.kind = "error" THEN [kind |-> "None"]
    ELSE response

\* scrape(url): None when fetch_url gave None or an empty body
scrape(url, response) ==
    LET html == fetch_url(url, response)
    IN  IF html.kind \in {"None", "empty"} THEN [kind |-> "None"]
        ELSE [kind |-> "dict", content |-> html.content,
              metadata |-> [url |-> url, title |-> html.title]]

\* process() of main.py: result['content'] of a None result raises TypeError
\* before the store is used.
process(coll, url, response, embedOk) ==
    LET result == scrape(url, response)
    IN  IF result.kind = "None"
        THEN [collection |-> coll, outcome |-> "raised", ret |-> -1,
              embedCalled |-> FALSE, wrote |-> FALSE]
        ELSE LET r == add_document(coll, result.content,
                          [url |-> url, title |-> result.metadata.title], embedOk)
             IN  IF r.outcome = "ok"
                 THEN [r EXCEPT !.ret = "process completed"]
                 ELSE r

----------------------------------------------------------------------------
(* State machine *)

\* The first VectorStore() creates the collection; every later VectorStore()
\* (one per request in main.py) gets the persisted one back unchanged.
Init ==
    /\ collection = create_collection("cosine").collection
    /\ metric = create_collection("cosine").metric
    /\ prev = EmptyCollection
    /\ last = [op |-> "init", url |-> "", content |-> <<>>, metadata |-> NoMeta,
               response |-> NoResponse, embedOk |-> TRUE, repeat |-> FALSE,
               outcome |-> "ok", ret |-> 0, embedCalled |-> FALSE,
               wrote |-> FALSE]

AddDocument ==
    \E content \in Contents, metadata \in Metadatas, embedOk \in BOOLEAN :
        LET r == add_document(collection, content, metadata, embedOk)
        IN  /\ count(collection) <= MaxFragments
            /\ collection' = r.collection
            /\ prev' = collection
            /\ last' = [op |-> "add_document", url |-> "", content |-> content,
                        metadata |-> metadata, response |-> NoResponse,
                        embedOk |-> embedOk,
                        repeat |-> /\ last.op = "add_document"
                                   /\ last.outcome = "ok"
                                   /\ last.content = content
                                   /\ last.metadata = metadata,
                        outcome |-> r.outcome,
                        ret |-> r.ret, embedCalled |-> r.embedCalled,
                        wrote |-> r.wrote]
            /\ UNCHANGED metric

DeleteByUrl ==
    \E url \in DeleteArgs :
        LET r == delete_by_url(collection, url)
        IN  /\ collection' = r.collection
            /\ prev' = collection
            /\ last' = [op |-> "delete_by_url", url |-> url, content |-> <<>>,
                        metadata |-> NoMeta, response |-> NoResponse,
                        embedOk |-> TRUE, repeat |-> FALSE,
                        outcome |-> "ok", ret |-> r.ret,
                        embedCalled |-> FALSE, wrote |-> r.ret > 0]
            /\ UNCHANGED metric

Clear ==
    /\ collection' = clear(collection, metric).collection
    /\ metric' = clear(collection, metric).metric
    /\ prev' = collection
    /\ last' = [op |-> "clear", url |-> "", content |-> <<>>,
                metadata |-> NoMeta, response |-> NoResponse,
                embedOk |-> TRUE, repeat |-> FALSE, outcome |-> "ok", ret |-> 0,
                embedCalled |-> FALSE, wrote |-> TRUE]

GetStats ==
    /\ prev' = collection
    /\ last' = [op |-> "get_stats", url |-> "", content |-> <<>>,
                metadata |-> NoMeta, response |-> NoResponse,
                embedOk |-> TRUE, repeat |-> FALSE, outcome |-> "ok",
                ret |-> get_stats(collection), embedCalled |-> FALSE,
                wrote |-> FALSE]
    /\ UNCHANGED <<collection, metric>>

Process ==
    \E url \in ProcessUrls, response \in Responses, embedOk \in BOOLEAN :
        LET r == process(collection, url, response, embedOk)
        IN  /\ count(collection) <= MaxFragments
            /\ collection' = r.collection
            /\ prev' = collection
            /\ last' = [op |-> "process", url |-> url, content |-> <<>>,
                        metadata |-> NoMeta, response |-> response,
                        embedOk |-> embedOk, repeat |-> FALSE,
                        outcome |-> r.outcome,
                        ret |-> r.ret, embedCalled |-> r.embedCalled,
                        wrote |-> r.wrote]
            /\ UNCHANGED metric

Next ==
    \/ AddDocument
    \/ DeleteByUrl
    \/ Clear
    \/ GetStats
    \/ Process

Spec == Init /\ [][Next]_vars

----------------------------------------------------------------------------
(* Vocabulary of the claims *)

HasSource(metadata) ==
    "url" \in DOMAIN metadata \/ "source" \in DOMAIN metadata

\* The source-identifying field of a fragment: url if present, else source
SourceOf(metadata) ==
    IF "url" \in DOMAIN metadata THEN metadata["url"]
    ELSE IF "source" \in DOMAIN metadata THEN metadata["source"]
    ELSE "<none>"

\* Chunks, ids and per-chunk metadata of the document of the last add_document
LastChunks == split_text(last.content)
LastIds == DocIds(LastChunks, last.metadata)
LastMetadatas == DocMetadatas(LastChunks, last.metadata)

Removed == DOMAIN prev \ DOMAIN collection

----------------------------------------------------------------------------
(* C1: Idempotence of ingestion.  When add_document is called a second time
   with the arguments of the successful call just before it, count() after
   the second call equals count() after the first. *)
C1_Idempotent ==
    (last.op = "add_document" /\ last.repeat) =>
        count(collection) = count(prev)

\* a second identical call of a document with chunks, which itself succeeded
C1_Witness ==
    /\ last.op = "add_document"
    /\ last.repeat
    /\ last.outcome = "ok"
    /\ last.ret > 0
    /\ count(collection) = last.ret

(* C2: Deletion scoping.  delete_by_url(s) removes exactly the fragments
   whose source-identifying field (url if present, else source) equals s and
   leaves every other fragment unchanged. *)
C2_DeletionScoping ==
    last.op = "delete_by_url" =>
        /\ \A id \in DOMAIN prev :
              (id \in Removed) <=> (SourceOf(prev[id].metadata) = last.url)
        /\ \A id \in DOMAIN collection : collection[id] = prev[id]

(* C3: Scrape failure is a zero-effect ingestion.  When scrape(url) fails,
   /process writes nothing to the store and completes with a result instead
   of raising. *)
C3_ScrapeFailureNoThrow ==
    (last.op = "process" /\ scrape(last.url, last.response).kind = "None") =>
        /\ collection = prev
        /\ last.outcome = "ok"

(* C4: Empty input.  When the chunker returns no chunks, add_document returns
   0, calls no embedder, writes nothing, and the store is unchanged. *)
C4_EmptyInput ==
    (last.op = "add_document" /\ Len(LastChunks) = 0) =>
        /\ last.outcome = "ok"
        /\ last.ret = 0
        /\ ~last.embedCalled
        /\ ~last.wrote
        /\ collection = prev

\* whitespace-only content offered to a store that holds fragments
C4_Witness ==
    /\ last.op = "add_document"
    /\ last.content = <<" ">>
    /\ last.ret = 0
    /\ count(prev) > 0

(* C5: Reset.  The collection always carries the cosine tag, and right after
   clear() count() is 0 and get_all_sources() is empty, whatever the store
   held before. *)
C5_Reset ==
    /\ metric = "cosine"
    /\ last.op = "clear" =>
          /\ count(collection) = 0
          /\ get_all_sources(collection) = {}

\* clear() of a store that held fragments of at least one source
C5_Witness ==
    /\ last.op = "clear"
    /\ count(prev) > 0
    /\ get_all_sources(prev) # {}
    /\ count(collection) = 0

(* C6: Whole-fragment replacement.  When add_document produces an id that is
   already in the collection, the stored text and metadata of that id are
   afterwards those of the latest ingestion. *)
C6_Overwrite ==
    (last.op = "add_document" /\ last.outcome = "ok") =>
        \A k \in 1..Len(LastChunks) :
            LastIds[k] \in DOMAIN prev =>
                /\ collection[LastIds[k]].document = LastChunks[k]
                /\ collection[LastIds[k]].metadata = LastMetadatas[k]

(* C7: All-or-nothing ingestion.  When the embedder fails in add_document the
   call raises and the store is as before; a call that raises never changes
   the store; a call that reports success leaves every id of the document in
   the store. *)
C7_AllOrNothing ==
    last.op = "add_document" =>
        /\ (~last.embedOk /\ Len(LastChunks) > 0) =>
              (last.outcome = "raised" /\ collection = prev)
        /\ last.outcome = "raised" => (collection = prev /\ ~last.wrote)
        /\ last.outcome = "ok" =>
              \A k \in 1..Len(LastChunks) : LastIds[k] \in DOMAIN collection

\* the embedder failed on a document none of whose ids was stored yet
C7_Witness ==
    /\ last.op = "add_document"
    /\ ~last.embedOk
    /\ Len(LastChunks) = 2
    /\ last.outcome = "raised"
    /\ count(prev) > 0
    /\ \A k \in 1..Len(LastChunks) : LastIds[k] \notin DOMAIN collection

(* C8: Source-field invariant.  Every persisted fragment's metadata carries
   url or source, and its source is listed by get_all_sources(). *)
C8_SourceField ==
    \A id \in DOMAIN collection :
        /\ HasSource(collection[id].metadata)
        /\ SourceOf(collection[id].metadata) \in get_all_sources(collection)

(* C9: Stale fragments.  A fragment leaves the store only by clear() or by
   delete_by_url of the source it belongs to (url if present, else source);
   in particular the fragments a shrinking re-ingestion leaves behind stay
   until then. *)
C9_RemovedOnlyBySourceDeleteOrClear ==
    \A id \in Removed :
        \/ last.op = "clear"
        \/ last.op = "delete_by_url" /\ last.url = SourceOf(prev[id].metadata)

\* Supporting fact for C9: a successful add_document leaves every fragment of
\* the same source at a position beyond the new chunk count exactly as it was.
StaleFragmentsRemain ==
    (last.op = "add_document" /\ last.outcome = "ok") =>
        \A id \in DOMAIN prev :
            ( /\ SourceOf(prev[id].metadata) = SourceOf(last.metadata)
              /\ prev[id].metadata["chunk_index"] >= last.ret ) =>
                (id \in DOMAIN collection /\ collection[id] = prev[id])

(* C10: Cross-source id separation.  The ids a successful add_document
   derives for a document are not ids of fragments stored for a different
   source, so the call adds as many fragments as the document has chunks
   when the store holds only other sources. *)
C10_IdsDisjointAcrossSources ==
    (last.op = "add_document" /\ last.outcome = "ok"
        /\ HasSource(last.metadata)) =>
        \A id \in DOMAIN prev :
            ( /\ HasSource(prev[id].metadata)
              /\ SourceOf(prev[id].metadata) # SourceOf(last.metadata) ) =>
                \A k \in 1..Len(LastIds) : LastIds[k] # id

====
